---- MODULE Spec2Model ----
(***************************************************************************)
(* Model of the dungeon generator and the collision rule of src/main.rs:   *)
(* Rect, create_room, create_tunnel, make_map, Object::move_by and         *)
(* handle_keys.  Rendering and window set-up change none of the state      *)
(* modelled here and are left out.                                         *)
(***************************************************************************)
EXTENDS Integers, Sequences, FiniteSets

\* ---------------------------------------------------------------- constants
MAP_WIDTH == 80
MAP_HEIGHT == 45
ROOM_MAX_SIZE == 10
ROOM_MIN_SIZE == 6
MAX_ROOMS == 30

\* ------------------------------------------------------------------- bounds
\* The random source of make_map is sampled on a subset of its range: the
\* SizeSamples smallest room sizes, and OriginSamples + 2 origins on the
\* diagonal (see Origins).
SizeSamples == 2
OriginSamples == 1

\* map      the Vec<Vec<Tile>> of make_map, stored as the set of index pairs
\*          <<x, y>> whose tile is Tile::empty(); every other pair of the
\*          MAP_WIDTH x MAP_HEIGHT grid holds Tile::wall() (TileAt reads it)
\* rooms    the vector rooms of make_map
\* player   the position of objects.player
\* attempt  the loop variable x of make_map
\* pc       "make_map", "main_loop", "done" (main returned) or "panic"
\* exit     the last value handle_keys returned to main
VARIABLES map, rooms, player, attempt, pc, exit

vars == <<map, rooms, player, attempt, pc, exit>>

\* -------------------------------------------------------------------- tiles
Tile_empty == [blocked |-> FALSE, block_sight |-> FALSE]

Tile_wall == [blocked |-> TRUE, block_sight |-> TRUE]

\* vec![vec![Tile::wall(); MAP_HEIGHT]; MAP_WIDTH]: no tile is empty.
WallMap == {}

\* An index pair the two indexing operations map[x][y] accept; any other
\* pair (a negative index cast to usize included) panics.
InRange(x, y) == x \in 0..(MAP_WIDTH - 1) /\ y \in 0..(MAP_HEIGHT - 1)

\* map[x][y] for an index pair in range.
TileAt(m, x, y) == IF <<x, y>> \in m THEN Tile_empty ELSE Tile_wall

\* --------------------------------------------------------------------- Rect
Rect_new(x, y, w, h) == [x1 |-> x, y1 |-> y, x2 |-> x + w, y2 |-> y + h]

\* i32 division truncates toward zero; the operands are never negative here.
center(r) == <<(r.x1 + r.x2) \div 2, (r.y1 + r.y2) \div 2>>

\* intersects_with with strict comparisons: rectangles that only touch pass.
intersects_with_strict(self, other) ==
    /\ self.x1 < other.x2
    /\ self.x2 > other.x1
    /\ self.y1 < other.y2
    /\ self.y2 > other.y1

intersects_with(self, other) ==
    /\ self.x1 <= other.x2
    /\ self.x2 >= other.x1
    /\ self.y1 <= other.y2
    /\ self.y2 >= other.y1

\* ------------------------------------------------------------------ carving
\* create_room with loops that start on x1, y1 and run through x2, y2.
RoomCellsWithBorder(room) ==
    {<<x, y>> : x \in room.x1..room.x2, y \in room.y1..room.y2}

\* The index pairs the loops of create_room visit.
RoomCells(room) ==
    {<<x, y>> : x \in (room.x1 + 1)..(room.x2 - 1), y \in (room.y1 + 1)..(room.y2 - 1)}

\* The index pairs the loops of create_tunnel visit.
TunnelCells(x1, x2, y, y2) ==
    LET lo(a, b) == IF a < b THEN a ELSE b
        hi(a, b) == IF a < b THEN b ELSE a
    IN  {<<x, yy>> : x \in lo(x1, x2)..hi(x1, x2), yy \in lo(y, y2)..hi(y, y2)}

\* An indexing operation of a carving loop panics when a visited pair is
\* outside the vectors.
CarvePanics(cells) == \E c \in cells : ~InRange(c[1], c[2])

\* map[x][y] = Tile::empty() for every visited pair.
Carve(m, cells) == m \cup cells

create_room(room, m) == Carve(m, RoomCells(room))

create_tunnel(x1, x2, y, y2, m) == Carve(m, TunnelCells(x1, x2, y, y2))

\* ----------------------------------------------------------------- sampling
\* rand::random_range(ROOM_MIN_SIZE..ROOM_MAX_SIZE + 1)
SizeRange == ROOM_MIN_SIZE..ROOM_MAX_SIZE

\* random_range(0..=limit - size): the range with its end included.
OriginRangeInclusive(limit, size) == 0..(limit - size)

\* random_range(0..limit): the size of the room not subtracted.
OriginRangeWholeAxis(limit, size) == 0..(limit - 1)

\* rand::random_range(0..limit - size)
OriginRange(limit, size) == 0..(limit - size - 1)

\* The sampled sizes: the SizeSamples smallest of the range.
Sizes == {s \in SizeRange : s < ROOM_MIN_SIZE + SizeSamples}

Largest(S) == CHOOSE m \in S : \A n \in S : n <= m

\* The sampled origins <<x, y>> of a candidate of size w * h: the corner
\* <<0, 0>>; OriginSamples diagonal points counted down from
\* <<ROOM_MIN_SIZE + 1, ROOM_MIN_SIZE + 1>>, the first origin at which a room
\* clears a smallest room at the corner and touches a larger one, into the
\* origins that overlap it; and the largest origin the two ranges hold.
Origins(w, h) ==
    LET xs == OriginRange(MAP_WIDTH, w)
        ys == OriginRange(MAP_HEIGHT, h)
        near == {0} \cup {ROOM_MIN_SIZE + 1 - k : k \in 0..(OriginSamples - 1)}
    IN  {<<o, o>> : o \in near \cap xs \cap ys} \cup {<<Largest(xs), Largest(ys)>>}

\* ----------------------------------------------------------------- movement
Keys == {"Up", "Down", "Left", "Right", "Escape", "AltEnter", "Other"}

MoveKeys == {"Up", "Down", "Left", "Right"}

\* The (dx, dy) handle_keys passes to move_by for a movement key.
Delta(k) ==
    CASE k = "Up" -> <<0, -1>>
      [] k = "Down" -> <<0, 1>>
      [] k = "Left" -> <<-1, 0>>
      [] k = "Right" -> <<1, 0>>

\* move_by without the test of the target tile.
move_by_unchecked(self, dx, dy, m) == [x |-> self.x + dx, y |-> self.y + dy]

\* move_by that adds dy to x and dx to y.
move_by_swapped(self, dx, dy, m) ==
    IF ~TileAt(m, self.x + dx, self.y + dy).blocked
    THEN [x |-> self.x + dy, y |-> self.y + dx]
    ELSE self

\* Object::move_by: the position after the call (the target is in range).
move_by(self, dx, dy, m) ==
    IF ~TileAt(m, self.x + dx, self.y + dy).blocked
    THEN [x |-> self.x + dx, y |-> self.y + dy]
    ELSE self

\* ------------------------------------------------------------ state machine
\* main up to the call of make_map (the player is built at (25, 23)), and
\* make_map up to its loop.
Init ==
    /\ map = WallMap
    /\ rooms = <<>>
    /\ player = [x |-> 25, y |-> 23]
    /\ attempt = 0
    /\ pc = "make_map"
    /\ exit = FALSE

\* for x in 0..=MAX_ROOMS
LoopContinuesInclusive(x) == x <= MAX_ROOMS

\* for x in 0..MAX_ROOMS
LoopContinues(x) == x < MAX_ROOMS

\* The spawn assignment without the test rooms.is_empty().
SpawnAlways(p, rs, room) == [x |-> center(room)[1], y |-> center(room)[2]]

\* The spawn assignment of make_map: only the first accepted room sets it.
Spawn(p, rs, room) ==
    IF rs = <<>> THEN [x |-> center(room)[1], y |-> center(room)[2]] ELSE p

\* One iteration of the loop of make_map on the candidate w, h, o.
AttemptWith(w, h, o) ==
    LET room == Rect_new(o[1], o[2], w, h)
        failed == \E i \in 1..Len(rooms) : intersects_with(room, rooms[i])
    IN  /\ pc = "make_map"
        /\ LoopContinues(attempt)
        /\ IF failed
           THEN UNCHANGED <<map, rooms, player, pc>>
           ELSE IF CarvePanics(RoomCells(room))
           THEN /\ pc' = "panic"
                /\ UNCHANGED <<map, rooms, player>>
           ELSE /\ map' = create_room(room, map)
                /\ player' = Spawn(player, rooms, room)
                /\ rooms' = Append(rooms, room)
                /\ pc' = pc
        /\ attempt' = attempt + 1
        /\ exit' = exit

Attempt == \E w \in Sizes, h \in Sizes : \E o \in Origins(w, h) : AttemptWith(w, h, o)

\* make_map returns the map; main enters its loop.
MakeMapReturn ==
    /\ pc = "make_map"
    /\ ~LoopContinues(attempt)
    /\ pc' = "main_loop"
    /\ UNCHANGED <<map, rooms, player, attempt, exit>>

\* handle_keys with the movement arms returning true as the Escape arm does.
handle_keys_returns_on_arrows(k) == k \in MoveKeys \cup {"Escape"}

\* The value handle_keys returns: true on Escape, false on every other key.
handle_keys_returns(k) == k = "Escape"

\* handle_keys on the key k, and main acting on the value it returns
\* (break when it is true).  move_by itself returns no value.  Alt+Enter
\* toggles the full-screen flag of the window, which is no part of the
\* state modelled here.
HandleKey(k) ==
    /\ pc = "main_loop"
    /\ IF k \in MoveKeys /\ ~InRange(player.x + Delta(k)[1], player.y + Delta(k)[2])
       THEN /\ pc' = "panic"
            /\ UNCHANGED <<player, exit>>
       ELSE /\ player' = IF k \in MoveKeys
                         THEN move_by(player, Delta(k)[1], Delta(k)[2], map)
                         ELSE player
            /\ exit' = handle_keys_returns(k)
            /\ pc' = IF handle_keys_returns(k) THEN "done" ELSE pc
    /\ UNCHANGED <<map, rooms, attempt>>

\* One turn of the loop of main: it waits for a key press and drops it, then
\* handle_keys waits for the key it acts on.
HandleKeys == \E k \in Keys : HandleKey(k)

\* while !tcod.root.window_closed(): the window is closed and main returns.
WindowClosed ==
    /\ pc = "main_loop"
    /\ pc' = "done"
    /\ UNCHANGED <<map, rooms, player, attempt, exit>>

Next == Attempt \/ MakeMapReturn \/ HandleKeys \/ WindowClosed

Spec == Init /\ [][Next]_vars

\* make_map alone, from the call to the return.  Its loop and its return
\* are straight-line code of one thread: a step is taken whenever one can be.
MakeMapNext == Attempt \/ MakeMapReturn

MakeMapSpec == Init /\ [][MakeMapNext]_vars /\ WF_vars(MakeMapNext)

\* =============================================================== properties
\* Helpers of the properties, stated on coordinates and on the map rather
\* than through the operators of the model.

\* <<x, y>> lies strictly inside the rectangle r.
Interior(r, x, y) == r.x1 < x /\ x < r.x2 /\ r.y1 < y /\ y < r.y2

\* The boundary ring of the rectangle r.
Ring(r) ==
    {<<x, y>> \in (r.x1..r.x2) \X (r.y1..r.y2) : x \in {r.x1, r.x2} \/ y \in {r.y1, r.y2}}

\* The closed intervals of a and b overlap on both axes (touching counts).
ClosedOverlap(a, b) ==
    LET lo(u, v) == IF u < v THEN u ELSE v
        hi(u, v) == IF u < v THEN v ELSE u
    IN  /\ hi(a.x1, b.x1) <= lo(a.x2, b.x2)
        /\ hi(a.y1, b.y1) <= lo(a.y2, b.y2)

\* A tile of the grid that is not blocked.
Open(m, c) == InRange(c[1], c[2]) /\ ~TileAt(m, c[1], c[2]).blocked

\* The tiles one axis-aligned single step away from c.
Steps(c) == {<<c[1] + 1, c[2]>>, <<c[1] - 1, c[2]>>, <<c[1], c[2] + 1>>, <<c[1], c[2] - 1>>}

\* Flood fill: the non-blocked tiles joined to the tiles of seen by
\* axis-aligned single steps over non-blocked tiles.
RECURSIVE Flood(_, _, _)
Flood(m, frontier, seen) ==
    LET next == {n \in UNION {Steps(c) : c \in frontier} : Open(m, n)} \ seen
    IN  IF next = {} THEN seen ELSE Flood(m, next, seen \cup next)

Reachable(m, from) == IF Open(m, from) THEN Flood(m, {from}, {from}) ELSE {}

PlayerAt == <<player.x, player.y>>

\* The target of move_by for the key k.
Target(k) == <<player.x + Delta(k)[1], player.y + Delta(k)[2]>>

\* -------------------------------------------------------------------- C1
\* C1 (as claimed): once make_map has returned, the center of every accepted
\* room but the first is joined to the center of the room accepted just
\* before it by a path of non-blocked tiles made of axis-aligned single
\* steps.
C1_ConsecutiveCentersJoined ==
    pc = "main_loop" =>
        \A i \in 2..Len(rooms) : center(rooms[i]) \in Reachable(map, center(rooms[i - 1]))

\* -------------------------------------------------------------------- C2
\* C2: at every step of make_map no two accepted rectangles overlap or touch
\* (the inclusive test fails for them), no tile lies inside both, and the
\* boundary ring of each is made of wall tiles that lie inside no other
\* room, so a wall separates the two interiors.
C2_RoomsApart ==
    \A i, j \in 1..Len(rooms) :
        i # j =>
            /\ ~ClosedOverlap(rooms[i], rooms[j])
            /\ \A x \in (rooms[i].x1 + 1)..(rooms[i].x2 - 1) :
                 \A y \in (rooms[i].y1 + 1)..(rooms[i].y2 - 1) :
                   ~Interior(rooms[j], x, y)
            /\ \A c \in Ring(rooms[i]) :
                 /\ ~Interior(rooms[j], c[1], c[2])
                 /\ InRange(c[1], c[2]) /\ TileAt(map, c[1], c[2]).blocked

\* Two rooms were accepted one tile short of touching, after some candidate
\* had been rejected.
C2_Witness ==
    /\ attempt > Len(rooms)
    /\ \E i, j \in 1..Len(rooms) : rooms[j].x1 = rooms[i].x2 + 1

\* -------------------------------------------------------------------- C3
\* C3: once make_map has returned, whatever keys are handled, the tile at
\* the player's position is in the grid and not blocked.
C3_PlayerOnOpenTile ==
    pc \in {"main_loop", "done"} => Open(map, PlayerAt)

\* The player has walked away from the spawn point up to a wall.
C3_Witness ==
    /\ pc = "main_loop"
    /\ PlayerAt # center(rooms[1])
    /\ \E c \in Steps(PlayerAt) : ~Open(map, c)

\* -------------------------------------------------------------------- C4
\* C4: a movement key whose target is in range leaves the position as it
\* was when the target tile is blocked, moves it to exactly the target
\* otherwise, and leaves the grid as it was.
C4_MoveByFrame ==
    [][\A k \in MoveKeys :
          (HandleKey(k) /\ InRange(Target(k)[1], Target(k)[2])) =>
              /\ map' = map
              /\ player' = IF TileAt(map, Target(k)[1], Target(k)[2]).blocked
                           THEN player
                           ELSE [x |-> Target(k)[1], y |-> Target(k)[2]]]_vars

\* The player stands away from the spawn point (a move was committed) with
\* a blocked tile above or below and an open tile on the other side.
C4_Witness ==
    /\ pc = "main_loop"
    /\ PlayerAt # center(rooms[1])
    /\ ~Open(map, <<player.x, player.y - 1>>)
    /\ Open(map, <<player.x, player.y + 1>>)

\* -------------------------------------------------------------------- C5
\* C5: in every grid make_map builds no tile of the grid edge is empty, and
\* the interior of every accepted rectangle lies within
\* [1, MAP_WIDTH - 2] x [1, MAP_HEIGHT - 2].
C5_EdgeIsWall ==
    /\ \A c \in map : c[1] \in 1..(MAP_WIDTH - 2) /\ c[2] \in 1..(MAP_HEIGHT - 2)
    /\ \A i \in 1..Len(rooms) :
         /\ rooms[i].x1 + 1 >= 1 /\ rooms[i].x2 - 1 <= MAP_WIDTH - 2
         /\ rooms[i].y1 + 1 >= 1 /\ rooms[i].y2 - 1 <= MAP_HEIGHT - 2

\* make_map has returned a grid with a room against the low corner and a
\* room against the high corner of the grid.
C5_Witness ==
    /\ pc = "main_loop"
    /\ \E i \in 1..Len(rooms) : rooms[i].x1 = 0 /\ rooms[i].y1 = 0
    /\ \E i \in 1..Len(rooms) :
         rooms[i].x2 = MAP_WIDTH - 1 /\ rooms[i].y2 = MAP_HEIGHT - 1

\* -------------------------------------------------------------------- C6
\* C6 (as claimed): the result handed back for a movement key is true
\* exactly when the position changed.
C6_ResultTellsMoved ==
    [][\A k \in MoveKeys : HandleKey(k) => (exit' <=> player' # player)]_vars

\* C6 (amended): move_by hands nothing back, and the result of handle_keys
\* for a movement key is false whether the position changed or not; main
\* stays in its loop.
C6_ResultAlwaysFalse ==
    [][\A k \in MoveKeys : HandleKey(k) => (exit' = FALSE /\ pc' # "done")]_vars

\* The player has moved and the loop of main goes on.
C6_Witness ==
    /\ pc = "main_loop"
    /\ exit = FALSE
    /\ rooms # <<>>
    /\ PlayerAt # center(rooms[1])

\* -------------------------------------------------------------------- C7
\* C7: make_map returns, and when it has returned exactly MAX_ROOMS
\* candidates were tried; the accepted rooms never outnumber the attempts,
\* so never exceed MAX_ROOMS.
C7_Terminates ==
    /\ <>(pc # "make_map")
    /\ [](pc # "make_map" => attempt = MAX_ROOMS)
    /\ [](Len(rooms) <= attempt /\ attempt <= MAX_ROOMS)

\* make_map has returned with fewer rooms than attempts.
C7_Witness ==
    /\ pc = "main_loop"
    /\ attempt = MAX_ROOMS
    /\ Len(rooms) < attempt
    /\ Len(rooms) >= 2

\* -------------------------------------------------------------------- C8
\* C8: a tile is empty if and only if it lies strictly inside an accepted
\* rectangle (no corridor is ever carved); a step that changes the grid
\* accepts one room, empties tiles strictly inside it only, and turns no
\* empty tile back into a wall.
C8_CarvedIsInterior ==
    /\ [](/\ \A c \in map : \E i \in 1..Len(rooms) : Interior(rooms[i], c[1], c[2])
          /\ \A i \in 1..Len(rooms) :
               \A x \in (rooms[i].x1 + 1)..(rooms[i].x2 - 1) :
                 \A y \in (rooms[i].y1 + 1)..(rooms[i].y2 - 1) :
                   <<x, y>> \in map)
    /\ [][/\ map \subseteq map'
          /\ map' # map =>
               /\ Len(rooms') = Len(rooms) + 1
               /\ \A c \in map' \ map : Interior(rooms'[Len(rooms')], c[1], c[2])]_vars

\* Three rooms have been carved.
C8_Witness == Len(rooms) >= 3 /\ map # {}

\* -------------------------------------------------------------------- C9
\* C9: the first candidate is accepted, so a room exists from the first
\* attempt on; throughout make_map the player stands on the center of the
\* first accepted room, whatever rooms are accepted later, and that center
\* is an empty tile strictly inside the room.
C9_SpawnIsFirstCenter ==
    /\ attempt >= 1 => Len(rooms) >= 1
    /\ (pc = "make_map" /\ rooms # <<>>) =>
         /\ PlayerAt = center(rooms[1])
         /\ Interior(rooms[1], player.x, player.y)
         /\ Open(map, PlayerAt)

\* A second room has been accepted after a first room of odd width, whose
\* center is a truncated midpoint.
C9_Witness ==
    /\ pc = "make_map"
    /\ Len(rooms) >= 2
    /\ (rooms[1].x2 - rooms[1].x1) % 2 = 1
    /\ center(rooms[2]) # center(rooms[1])

\* ------------------------------------------------------------------- C10
\* C10: no index is out of range: nothing panics, every index create_room
\* wrote is in the grid, and once make_map has returned the player is never
\* on a tile of the grid edge, so each of the four targets of move_by is in
\* the grid.
C10_NoIndexOutOfRange ==
    /\ pc # "panic"
    /\ \A i \in 1..Len(rooms) :
         /\ InRange(rooms[i].x1 + 1, rooms[i].y1 + 1)
         /\ InRange(rooms[i].x2 - 1, rooms[i].y2 - 1)
    /\ pc = "main_loop" =>
         /\ player.x \in 1..(MAP_WIDTH - 2)
         /\ player.y \in 1..(MAP_HEIGHT - 2)
         /\ \A k \in MoveKeys : InRange(Target(k)[1], Target(k)[2])

\* The player stands next to the grid edge, in a room against a corner.
C10_Witness ==
    /\ pc = "main_loop"
    /\ player.x \in {1, MAP_WIDTH - 2}
    /\ player.y \in {1, MAP_HEIGHT - 2}

====
